---- MODULE Spec2Model ----
(***************************************************************************)
(* The lazy remote-client supervisor of the VIS42 MCP proxy                *)
(* (buildGetRemoteClient: makeClient, connect, getRemoteClient).           *)
(*                                                                         *)
(* One step of the model is one task of the JavaScript event loop with the *)
(* microtasks it queues, run to completion: a getRemoteClient() call up to *)
(* its first await, an onclose callback, or an event of the environment (a *)
(* client.connect() promise settling, the setTimeout callback running)     *)
(* together with the continuation of connect() and the .then/.catch        *)
(* handler of getRemoteClient that the event makes runnable.               *)
(*                                                                         *)
(* An onclose callback can also run as a microtask, between the settling   *)
(* of a connect promise and the continuation of connect(): that task is    *)
(* the step ConnectResolvesThenCloses.                                     *)
(***************************************************************************)
EXTENDS Integers, Sequences, FiniteSets, TLC

\* ------------------------------------------------------------------ bounds
MaxAttempts == 2
MaxCalls == 3
\* invocations of an operation wrapped by withLogging
MaxInvocations == 2
\* the last reading of Date.now(), in ms after the first
MaxNow == 1
\* calls of the onerror callbacks of index.js
MaxErrors == 1

\* ---------------------------------------------------------------- constants
connectTimeoutMs == 30000

Attempts == 1..MaxAttempts
Clients == 1..(2 * MaxAttempts)
Null == 0

\* The client made by the StreamableHTTP try / the SSE try of attempt a
\* (every makeClient() call returns a new object).
PrimaryClient(a) == 2 * a - 1
FallbackClient(a) == 2 * a
AttemptOf(c) == (c + 1) \div 2

\* ------------------------------------------------------------ error messages
\* A message is a sequence of characters, so that the regular expression of
\* connect() is computed on its text.
UpperCase == <<"A","B","C","D","E","F","G","H","I","J","K","L","M",
               "N","O","P","Q","R","S","T","U","V","W","X","Y","Z">>
LowerCase == <<"a","b","c","d","e","f","g","h","i","j","k","l","m",
               "n","o","p","q","r","s","t","u","v","w","x","y","z">>

ToLower(ch) ==
  IF \E i \in 1..26 : UpperCase[i] = ch
  THEN LowerCase[CHOOSE i \in 1..26 : UpperCase[i] = ch]
  ELSE ch

\* \s: the white space and the line terminators of ECMAScript, that is
\* TAB, VT, FF, SP, NBSP (U+00A0), ZWNBSP (U+FEFF), the other space
\* separators (U+1680, U+2000 to U+200A, U+202F, U+205F, U+3000), LF, CR,
\* LS (U+2028) and PS (U+2029).  A character outside ASCII is written as its
\* escape, "\\u" and four hexadecimal digits, in this set and in a message.
WhiteSpace ==
  {"\t", "", "\f", " ", "\n", "\r"}
  \cup
  {"\\u00a0", "\\u1680", "\\u2000", "\\u2001", "\\u2002",
   "\\u2003", "\\u2004", "\\u2005", "\\u2006", "\\u2007",
   "\\u2008", "\\u2009", "\\u200a", "\\u2028", "\\u2029",
   "\\u202f", "\\u205f", "\\u3000", "\\ufeff"}

\* msg[i..] starts with the word w, ignoring case
HasWordAt(msg, i, w) ==
  /\ i >= 1
  /\ i + Len(w) - 1 <= Len(msg)
  /\ \A j \in 1..Len(w) : ToLower(msg[i + j - 1]) = w[j]

\* /timed?\s*out/i.test(msg)
TimedOutRegex(msg) ==
  \E i \in 1..Len(msg) :
    /\ HasWordAt(msg, i, <<"t","i","m","e">>)
    /\ \E d \in {0, 1} :
         /\ d = 1 => HasWordAt(msg, i + 4, <<"d">>)
         /\ \E w \in 0..Len(msg) :
              /\ \A j \in 1..w :
                   /\ i + 4 + d + j - 1 <= Len(msg)
                   /\ msg[i + 4 + d + j - 1] \in WhiteSpace
              /\ HasWordAt(msg, i + 4 + d + w, <<"o","u","t">>)

Digit == <<"0","1","2","3","4","5","6","7","8","9">>

RECURSIVE ToDigits(_)
ToDigits(n) ==
  IF n < 10 THEN <<Digit[n + 1]>>
  ELSE ToDigits(n \div 10) \o <<Digit[(n % 10) + 1]>>

\* `Connection timed out after ${connectTimeoutMs}ms`
TimeoutMessage ==
  <<"C","o","n","n","e","c","t","i","o","n"," ","t","i","m","e","d"," ",
    "o","u","t"," ","a","f","t","e","r"," ">>
  \o ToDigits(connectTimeoutMs) \o <<"m","s">>

\* The messages a failing client.connect() rejects with: "refused" and
\* "ETIMEDOUT" (the code of a TCP connect that timed out in the network).
TransportMessages ==
  { <<"r","e","f","u","s","e","d">>,
    <<"E","T","I","M","E","D","O","U","T">> }

\* ------------------------------------------------------------------- values
\* What a promise is settled with.
Pending == [t |-> "pending", client |-> Null, kind |-> "", msg |-> <<>>]
Ok(c) == [t |-> "ok", client |-> c, kind |-> "", msg |-> <<>>]
Err(kind, msg) == [t |-> "err", client |-> Null, kind |-> kind, msg |-> msg]

\* the Error the setTimeout callback rejects the `timeout` promise with
TimeoutError == Err("guard", TimeoutMessage)
\* the Error a client.connect() rejects with
TransportError(msg) == Err("transport", msg)

VARIABLES
  remoteClient,    \* the cached client, or Null
  connectPromise,  \* the attempt whose promise is stored, or Null
  nAttempts,       \* connect() runs started so far
  pc,              \* where each connect() run stands
  timer,           \* the setTimeout of each connect() run
  cstate,          \* the client.connect() promise of each client
  closed,          \* the clients whose onclose has been called
  outcome,         \* what the promise stored by getRemoteClient settled with
  calls,           \* the getRemoteClient() calls made so far
  lastClosed,      \* the cached handle closed since the last call, or Null
  age,             \* ms since each running connect() started; what it was
                   \* when the timer fired, for a run the timer ended
  due,             \* the age at which the setTimeout of each run is due
  fbAt,            \* the age at which the SSE try of each run began
  localConnected,  \* server.connect(localTransport) of main() has resolved
  mainStarted,     \* index.js has been evaluated and main() has run up to
                   \* its await
  errorSaid,       \* the lines the onerror callbacks have passed to log
  now,             \* Date.now()
  inv,             \* the invocations of wrapped operations made so far
  logged,          \* the lines passed to log, in order, for each source:
                   \* the invocation that passed them, or 0 for the lines of
                   \* the module, of main(), of server.onclose and of the
                   \* handlers of the process; the order of the lines of two
                   \* sources is not kept
  failedOn,        \* the client on which a proxied operation failed in the
                   \* last step, or Null
  apiToken,        \* the apiToken buildGetRemoteClient was called with
  headers,         \* the headers the transport of each client was made with
  warnChecked,     \* warnIfNoToken(apiToken, log) has been called
  warnings,        \* the lines warnIfNoToken has passed to log
  said,            \* the lines each connect() run has passed to log
  closeSaid,       \* the lines the onclose of each client has passed to log
  shutdown         \* how far the onclose of the local server has got

vars == <<remoteClient, connectPromise, nAttempts, pc, timer, cstate,
          closed, outcome, calls, lastClosed, age, due, fbAt, localConnected,
          mainStarted, errorSaid, now, inv, logged, failedOn, apiToken,
          headers, warnChecked, warnings, said, closeSaid, shutdown>>

\* The credential and what has been said about it.
config == <<apiToken, warnChecked, warnings>>

\* How far main() of index.js has got and the onerror callbacks it has seen.
local == <<localConnected, mainStarted, errorSaid>>
\* What no handler of the closure and no request handler writes.
outside == <<local, now, config, shutdown>>
\* The requests that are being handled and what their handlers have logged.
wrapped == <<inv, logged>>
\* What buildGetRemoteClient's closure and its clients are made of.
supervisor == <<remoteClient, connectPromise, nAttempts, pc, timer, cstate,
                closed, outcome, calls, lastClosed, age, due, fbAt, headers,
                said, closeSaid>>

\* ----------------------------------------------------------------- helpers
\* connect() of attempt a is suspended at an await
InFlight(a) == pc[a] \in {"primary", "fallback"}
\* the client whose connect promise attempt a is racing against the timer
CurrentClient(a) == IF pc[a] = "primary" THEN PrimaryClient(a) ELSE FallbackClient(a)
\* A connect whose settling always runs the continuation of its connect().
AwaitedWhenever(c) == TRUE

\* connect() is suspended at the race that holds the connect promise of c
Awaited(c) == InFlight(AttemptOf(c)) /\ c = CurrentClient(AttemptOf(c))

\* What call k has settled with, Pending while it has not.
Result(k) ==
  IF calls[k].val # Null THEN Ok(calls[k].val) ELSE outcome[calls[k].att]

\* The two variables of the closure, as the handlers read and write them.
Sup == [remoteClient |-> remoteClient, connectPromise |-> connectPromise]
SetSup(s) ==
  /\ remoteClient' = s.remoteClient
  /\ connectPromise' = s.connectPromise

\* An apiToken: null, or a string.
JsNull == [ty |-> "null", v |-> ""]
JsString(v) == [ty |-> "string", v |-> v]
Tokens == {JsNull, JsString(""), JsString("my-secret")}

\* buildGetRemoteClient({ ..., apiToken: token, ... }) has returned.
Construct(token) ==
  /\ apiToken = token
  /\ warnChecked = FALSE
  /\ warnings = <<>>
  /\ headers = [c \in Clients |-> {}]
  /\ said = [a \in Attempts |-> <<>>]
  /\ closeSaid = [c \in Clients |-> <<>>]
  /\ remoteClient = Null
  /\ connectPromise = Null
  /\ nAttempts = 0
  /\ pc = [a \in Attempts |-> "idle"]
  /\ timer = [a \in Attempts |-> "unset"]
  /\ cstate = [c \in Clients |-> "none"]
  /\ closed = {}
  /\ outcome = [a \in Attempts |-> Pending]
  /\ calls = <<>>
  /\ lastClosed = Null
  /\ age = [a \in Attempts |-> 0]
  /\ due = [a \in Attempts |-> 0]
  /\ fbAt = [a \in Attempts |-> 0]
  /\ localConnected = FALSE
  /\ mainStarted = FALSE
  /\ errorSaid = <<>>
  /\ now = 0
  /\ inv = <<>>
  /\ logged = [b \in 0..MaxInvocations |-> <<>>]
  /\ failedOn = Null
  /\ shutdown = "no"

\* The state after construction, with a credential.
Init == Construct(JsString("my-secret"))
\* The state after construction, with or without a credential.
InitAuth == \E token \in Tokens : Construct(token)

\* ------------------------------------------------------------------ log lines
\* The characters of a message as one string.
RECURSIVE Text(_)
Text(msg) == IF msg = <<>> THEN "" ELSE Head(msg) \o Text(Tail(msg))

\* log('Remote client connection closed.')
ClosedLine == "Remote client connection closed."
\* log('Lazy-connecting to remote server...')
ConnectingLine == "Lazy-connecting to remote server..."
\* log('Using StreamableHTTP transport.'), log('Using SSE transport.')
UsingLine(try) ==
  IF try = "primary" THEN "Using StreamableHTTP transport."
  ELSE "Using SSE transport."
\* log(`StreamableHTTP connect failed (${err.message}), falling back to SSE...`)
FallbackLine(err) ==
  "StreamableHTTP connect failed (" \o Text(err.msg)
     \o "), falling back to SSE..."
\* log('Connected to remote server.')
ConnectedLine == "Connected to remote server."

\* -------------------------------------------------- withLogging: the wrapper
\* The operations, requests and results the wrapped operations are run with.
Operations == {"tools/list", "tools/call"}
Requests == {"{}", "{params:{id:42}}"}
Results == {"{tools:[1,2]}"}
\* What a body throws: an Error with a message, or undefined.
JsError(message) == [ty |-> "Error", message |-> message]
JsUndefined == [ty |-> "undefined", message |-> ""]
Thrown == {JsError("boom"), JsUndefined}
\* err.stack: the name and the message of the Error (the name alone when the
\* message is empty); the frames that follow them are left out.
StackOf(e) == IF e.message = "" THEN e.ty ELSE e.ty \o ": " \o e.message
\* log(`CLIENT ERROR: ${error.message}\n${error.stack || ""}`)
ClientErrorLine(e) == "CLIENT ERROR: " \o e.message \o "\n" \o StackOf(e)
\* The errors a client passes to its onerror callback.
ClientErrors == {JsError("socket hang up")}
\* The TypeError of reading a property of undefined.
TypeErrorOfMessage ==
  [ty |-> "TypeError",
   message |-> "Cannot read properties of undefined (reading 'message')"]

\* log(`Proxying ${operation}...`)
StartLine(operation) == "Proxying " \o operation \o "..."
\* log(`${operation} completed in ${Date.now() - start}ms`)
CompletedLine(operation, ms) ==
  operation \o " completed in " \o ToString(ms) \o "ms"
\* log(`${operation} FAILED in ${Date.now() - start}ms: ${error.message}`)
FailedLine(operation, ms, message) ==
  operation \o " FAILED in " \o ToString(ms) \o "ms: " \o message

\* How a body, and how a wrapped operation, stands or has ended.
Running == [t |-> "running", v |-> ""]
Returned(v) == [t |-> "returned", v |-> v]
Threw(e) == [t |-> "threw", v |-> e]

\* fn(request): what the body is called with.
PassRequest(request) == request

\* A wrapper that returns nothing.
ReturnNothing(result) == Returned("undefined")

\* return result;
ReturnResult(result) == Returned(result)

\* log is called with each of lines, in order, lg being what has been
\* logged: every line is added to the lines of its source.
Log(lg, lines) ==
  [b \in DOMAIN lg |-> lg[b] \o SelectSeq(lines, LAMBDA l : l.by = b)]

\* The wrapped operation is called with request (call: the getRemoteClient()
\* call its body makes, Null for a body that makes none): start is read, the
\* start line is logged, fn is called and awaited.
Enter(operation, request, call) ==
  /\ inv' = Append(inv, [operation |-> operation, request |-> request,
                         start |-> now, received |-> PassRequest(request),
                         call |-> call, body |-> Running, out |-> Running])
  /\ logged' = Log(logged, <<[by |-> Len(inv) + 1,
                               line |-> StartLine(operation)]>>)

\* The try block after the body of invocation i returned result: it logs and
\* returns.
TryReturns(i, result) ==
  /\ inv' = [inv EXCEPT ![i].body = Returned(result),
                        ![i].out = ReturnResult(result)]
  /\ logged' = Log(logged,
        <<[by |-> i,
           line |-> CompletedLine(inv[i].operation, now - inv[i].start)]>>)

\* The catch block after the body of invocation i threw e: it reads
\* error.message for the line it logs and throws e again.  Reading the
\* message of undefined throws a TypeError out of the catch block before
\* anything is logged.
CatchOut(e) ==
  IF e.ty = "undefined" THEN Threw(TypeErrorOfMessage) ELSE Threw(e)
CatchLines(i, e) ==
  IF e.ty = "undefined" THEN <<>>
  ELSE <<[by |-> i,
          line |-> FailedLine(inv[i].operation, now - inv[i].start,
                              e.message)]>>

RECURSIVE CatchLinesOfAll(_, _)
CatchLinesOfAll(is, e) ==
  IF is = <<>> THEN <<>>
  ELSE CatchLines(Head(is), e) \o CatchLinesOfAll(Tail(is), e)

\* ----------------------------------------------------------------- makeClient
\* An onclose handler that forgets the stored promise but keeps the cache.
OnCloseKeepsCache(s, c) == [s EXCEPT !.connectPromise = Null]

\* client.onclose = () => { remoteClient = null; connectPromise = null; }
\* The handler is installed on every client makeClient() returns and does not
\* look at which client is closing.
OnClose(s, c) == [remoteClient |-> Null, connectPromise |-> Null]

\* The close notification of client c: any client that makeClient() has
\* returned, at most once per client.
Close(c) ==
  /\ cstate[c] # "none"
  /\ c \notin closed
  /\ closed' = closed \cup {c}
  /\ closeSaid' = [closeSaid EXCEPT ![c] = Append(@, ClosedLine)]
  /\ SetSup(OnClose(Sup, c))
  /\ lastClosed' = IF c = remoteClient /\ \E k \in 1..Len(calls) : Result(k) = Ok(c)
                   THEN c ELSE lastClosed
  /\ failedOn' = Null
  /\ UNCHANGED <<nAttempts, pc, timer, cstate, outcome, calls, age, due, fbAt,
                 headers, said, outside, wrapped>>

\* client.onerror of client c, installed by makeClient, is called with e: it
\* logs and changes nothing else.
ClientError(c, e) ==
  /\ cstate[c] # "none"
  /\ Len(errorSaid) < MaxErrors
  /\ errorSaid' = Append(errorSaid, ClientErrorLine(e))
  /\ UNCHANGED <<supervisor, wrapped, failedOn, localConnected, mainStarted,
                 now, config, shutdown>>

\* -------------------------------------------------------------------- connect
\* A cleanup that leaves the timer running.
CleanupNothing(tm, a) == tm

\* cleanup = () => clearTimeout(timeoutId), on the timers tm
Cleanup(tm, a) == [tm EXCEPT ![a] = IF @ = "pending" THEN "cleared" ELSE @]

\* A connect() that sets the header whatever apiToken is.
HeadersUnconditional(token) ==
  {[name |-> "Authorization", value |-> "Bearer " \o token.v]}

\* const headers = {};
\* if (apiToken) headers['Authorization'] = `Bearer ${apiToken}`;
Headers(token) ==
  IF token.ty = "string" /\ token.v # ""
  THEN {[name |-> "Authorization", value |-> "Bearer " \o token.v]}
  ELSE {}

\* A connect() without the timer: the connect is awaited alone.
ConnectStartUnguarded(a) ==
  /\ pc' = [pc EXCEPT ![a] = "primary"]
  /\ timer' = timer
  /\ cstate' = [cstate EXCEPT ![PrimaryClient(a)] = "pending"]
  /\ age' = [age EXCEPT ![a] = 0]
  /\ due' = [due EXCEPT ![a] = connectTimeoutMs]
  /\ fbAt' = [fbAt EXCEPT ![a] = 0]
  /\ headers' = [headers EXCEPT ![PrimaryClient(a)] = Headers(apiToken)]
  /\ said' = [said EXCEPT ![a] = <<ConnectingLine>>]

\* connect() up to its first await: the timer is started, the StreamableHTTP
\* transport and a client are made, client.connect(transport) is called and
\* raced against the timer.
ConnectStart(a) ==
  /\ pc' = [pc EXCEPT ![a] = "primary"]
  /\ timer' = [timer EXCEPT ![a] = "pending"]
  /\ cstate' = [cstate EXCEPT ![PrimaryClient(a)] = "pending"]
  /\ age' = [age EXCEPT ![a] = 0]
  /\ due' = [due EXCEPT ![a] = connectTimeoutMs]
  /\ fbAt' = [fbAt EXCEPT ![a] = 0]
  /\ headers' = [headers EXCEPT ![PrimaryClient(a)] = Headers(apiToken)]
  /\ said' = [said EXCEPT ![a] = <<ConnectingLine>>]

\* A connect() without the test for a timeout: every failure of the
\* StreamableHTTP try goes on to SSE.
IsTimeoutNever(err) == FALSE

\* if (/timed?\s*out/i.test(err.message)) { cleanup(); throw err; }
IsTimeout(err) == TimedOutRegex(err.msg)

\* An inner catch that goes on to the SSE try after any failure.
FallsBackOnAnyError(a, v) == pc[a] = "primary" /\ v.t = "err"

\* The inner catch of connect() goes on to the SSE try: the StreamableHTTP
\* race rejected with v, and v is not taken for a timeout.
FallsBack(a, v) == pc[a] = "primary" /\ v.t = "err" /\ ~IsTimeout(v)

\* An SSE try that starts a timer of its own: the deadline d of the run moves
\* to connectTimeoutMs after the moment t the try begins.
RearmedAtFallback(d, t) == t + connectTimeoutMs

\* The SSE try calls no setTimeout: it races against the `timeout` promise
\* made at the start of connect(), so the deadline d of the run stays what it
\* was when the try begins at t.
DueAtFallback(d, t) == d

\* The SSE try: a transport and a second client are made, its connect is
\* called and raced against the same `timeout` promise (tm, cs, s: the
\* timers, the connect promises and the closure's variables as the event
\* left them).
StartFallback(a, v, tm, cs, s) ==
  /\ pc' = [pc EXCEPT ![a] = "fallback"]
  /\ cstate' = [cs EXCEPT ![FallbackClient(a)] = "pending"]
  /\ timer' = tm
  /\ SetSup(s)
  /\ fbAt' = [fbAt EXCEPT ![a] = age[a]]
  /\ headers' = [headers EXCEPT ![FallbackClient(a)] = headers[PrimaryClient(a)]]
  /\ said' = [said EXCEPT ![a] = Append(@, FallbackLine(v))]
  /\ due' = [due EXCEPT ![a] = DueAtFallback(@, age[a])]
  /\ UNCHANGED <<outcome, age, wrapped>>

\* ------------------------------------------------------------ getRemoteClient
\* .then((client) => { remoteClient = client; return client; })
OnResolved(s, client) == [s EXCEPT !.remoteClient = client]

\* .catch((err) => { connectPromise = null; throw err; })
OnRejected(s) == [s EXCEPT !.connectPromise = Null]

\* The invocations whose body is suspended at `await getRemoteClient()` on
\* the promise of attempt a.
Awaiting(a) ==
  {i \in 1..Len(inv) :
     /\ inv[i].body = Running
     /\ inv[i].call # Null
     /\ calls[inv[i].call].att = a
     /\ Result(inv[i].call) = Pending}

\* The Error v, as the catch block of a handler sees it.
AsJsError(v) == JsError(Text(v.msg))

\* The promise of attempt a settles with v and the bodies awaiting it go on,
\* in the order of their calls: with a client each body calls its operation
\* on the client and awaits it; with an Error each body throws the Error,
\* which the catch block of its wrapper logs and throws again.
ResumeHandlers(a, v) ==
  IF v.t = "ok" \/ Awaiting(a) = {}
  THEN UNCHANGED wrapped
  ELSE /\ inv' = [i \in 1..Len(inv) |->
                    IF i \in Awaiting(a)
                    THEN [inv[i] EXCEPT !.body = Threw(AsJsError(v)),
                                        !.out = CatchOut(AsJsError(v))]
                    ELSE inv[i]]
       /\ logged' = Log(logged,
            CatchLinesOfAll(SelectSeq([i \in 1..Len(inv) |-> i],
                                      LAMBDA i : i \in Awaiting(a)),
                            AsJsError(v)))

\* connect() returns or throws v after cleanup(), and the handler that
\* getRemoteClient chained on its promise runs; the chained promise, the one
\* the callers hold, settles with v.
AttemptSettles(a, v, tm, cs, s) ==
  /\ timer' = Cleanup(tm, a)
  /\ cstate' = cs
  /\ SetSup(IF v.t = "ok" THEN OnResolved(s, v.client) ELSE OnRejected(s))
  /\ outcome' = [outcome EXCEPT ![a] = v]
  /\ pc' = [pc EXCEPT ![a] = "done"]
  /\ age' = [age EXCEPT ![a] = IF tm[a] = "fired" THEN @ ELSE 0]
  /\ fbAt' = [fbAt EXCEPT ![a] = IF tm[a] = "fired" THEN @ ELSE 0]
  /\ said' = [said EXCEPT ![a] = IF v.t = "ok"
                                  THEN @ \o <<UsingLine(pc[a]), ConnectedLine>>
                                  ELSE @]
  /\ ResumeHandlers(a, v)
  /\ UNCHANGED <<due, headers>>

\* `await Promise.race([client.connect(...), timeout])` of attempt a settles
\* with v, and connect() runs on to its next await or to its end.
Resume(a, v, tm, cs, s) ==
  IF FallsBack(a, v) THEN StartFallback(a, v, tm, cs, s)
  ELSE AttemptSettles(a, v, tm, cs, s)

\* What a call records when it is made (history, read by the properties only).
CallRecord(att, val, started) ==
  [att |-> att, val |-> val, started |-> started,
   inFlightAt |-> {a \in Attempts : InFlight(a)},
   closedAt |-> closed \cap (IF val # Null THEN {val}
                             ELSE {PrimaryClient(att), FallbackClient(att)}),
   afterCloseOf |-> lastClosed]

\* if (remoteClient) return remoteClient;
ReturnCached ==
  /\ remoteClient # Null
  /\ calls' = Append(calls, CallRecord(Null, remoteClient, FALSE))
  /\ UNCHANGED <<remoteClient, connectPromise, nAttempts, pc, timer, cstate,
                 age, due, fbAt, headers, said>>

\* if (connectPromise) return connectPromise;
ReturnInFlight ==
  /\ remoteClient = Null
  /\ connectPromise # Null
  /\ calls' = Append(calls, CallRecord(connectPromise, Null, FALSE))
  /\ UNCHANGED <<remoteClient, connectPromise, nAttempts, pc, timer, cstate,
                 age, due, fbAt, headers, said>>

\* A getRemoteClient() that connects without looking at the cache or at the
\* stored promise.
StartAttemptAlways ==
  /\ nAttempts < MaxAttempts
  /\ nAttempts' = nAttempts + 1
  /\ ConnectStart(nAttempts + 1)
  /\ connectPromise' = nAttempts + 1
  /\ calls' = Append(calls, CallRecord(nAttempts + 1, Null, TRUE))
  /\ UNCHANGED remoteClient

\* connectPromise = connect().then(...).catch(...); return connectPromise;
StartAttempt ==
  /\ remoteClient = Null
  /\ connectPromise = Null
  /\ nAttempts < MaxAttempts
  /\ nAttempts' = nAttempts + 1
  /\ ConnectStart(nAttempts + 1)
  /\ connectPromise' = nAttempts + 1
  /\ calls' = Append(calls, CallRecord(nAttempts + 1, Null, TRUE))
  /\ UNCHANGED remoteClient

\* getRemoteClient() up to the promise it returns.
GetRemoteClient ==
  /\ Len(calls) < MaxCalls
  /\ (ReturnCached \/ ReturnInFlight \/ StartAttempt)
  /\ lastClosed' = Null
  /\ failedOn' = Null
  /\ UNCHANGED <<closed, outcome, closeSaid>>

\* One call of getRemoteClient().
Acquire ==
  /\ GetRemoteClient
  /\ UNCHANGED <<outside, wrapped>>

\* ---------------------------------------------------------------- environment
\* client.connect(transport) of client c resolves, whether or not the onclose
\* of c has run.  If an attempt is awaiting it, the race resolves with the
\* client; a connect abandoned by its attempt has no continuation.
ConnectResolves(c) ==
  /\ cstate[c] = "pending"
  /\ IF Awaited(c)
     THEN Resume(AttemptOf(c), Ok(c), timer, [cstate EXCEPT ![c] = "ok"], Sup)
     ELSE /\ cstate' = [cstate EXCEPT ![c] = "ok"]
          /\ UNCHANGED <<remoteClient, connectPromise, pc, timer, outcome,
                         age, due, fbAt, headers, said, wrapped>>
  /\ failedOn' = Null
  /\ UNCHANGED <<nAttempts, closed, calls, lastClosed, outside, closeSaid>>

\* client.connect(transport) of the awaited client c resolves and the client
\* closes at once: its onclose runs after the connect promise resolved and
\* before the continuation of connect() and the .then handler.
ConnectResolvesThenCloses(c) ==
  /\ cstate[c] = "pending"
  /\ c \notin closed
  /\ Awaited(c)
  /\ closed' = closed \cup {c}
  /\ closeSaid' = [closeSaid EXCEPT ![c] = Append(@, ClosedLine)]
  /\ Resume(AttemptOf(c), Ok(c), timer, [cstate EXCEPT ![c] = "ok"],
            OnClose(Sup, c))
  /\ failedOn' = Null
  /\ UNCHANGED <<nAttempts, calls, lastClosed, outside>>

\* client.connect(transport) of client c rejects with an Error of message msg.
ConnectRejects(c, msg) ==
  /\ cstate[c] = "pending"
  /\ IF Awaited(c)
     THEN Resume(AttemptOf(c), TransportError(msg), timer,
                 [cstate EXCEPT ![c] = "failed"], Sup)
     ELSE /\ cstate' = [cstate EXCEPT ![c] = "failed"]
          /\ UNCHANGED <<remoteClient, connectPromise, pc, timer, outcome,
                         age, due, fbAt, headers, said, wrapped>>
  /\ failedOn' = Null
  /\ UNCHANGED <<nAttempts, closed, calls, lastClosed, outside, closeSaid>>

\* The setTimeout callback of attempt a runs: reject(new Error(...)); the
\* race the attempt awaits rejects with that Error.
TimerFires(a) ==
  /\ timer[a] = "pending"
  /\ Resume(a, TimeoutError, [timer EXCEPT ![a] = "fired"], cstate, Sup)
  /\ failedOn' = Null
  /\ UNCHANGED <<nAttempts, closed, calls, lastClosed, outside, closeSaid>>

\* The setTimeout callback runs when connectTimeoutMs have passed since the
\* setTimeout call.
TimerFiresWhenDue(a) ==
  /\ age[a] >= due[a]
  /\ TimerFires(a)

\* The clock is read in steps of half the timeout.
TickMs == connectTimeoutMs \div 2

\* Time passes for the connect() runs in flight.  A timer that is due runs
\* before time moves on.
Tick ==
  /\ \E a \in Attempts : InFlight(a)
  /\ \A a \in Attempts : InFlight(a) => age[a] < due[a]
  /\ age' = [a \in Attempts |-> IF InFlight(a) THEN age[a] + TickMs ELSE age[a]]
  /\ UNCHANGED <<remoteClient, connectPromise, nAttempts, pc, timer, cstate,
                 closed, outcome, calls, lastClosed, due, fbAt, outside,
                 wrapped, failedOn, headers, said, closeSaid>>

Next ==
  \/ Acquire
  \/ \E c \in Clients : Close(c)
  \/ \E c \in Clients : ConnectResolves(c)
  \/ \E c \in Clients : ConnectResolvesThenCloses(c)
  \/ \E c \in Clients, msg \in TransportMessages : ConnectRejects(c, msg)
  \/ \E a \in Attempts : TimerFires(a)
  \/ \E c \in Clients, e \in ClientErrors : ClientError(c, e)

\* Without a clock: time is left out, the timer of a run in flight may fire
\* at any point.
Spec == Init /\ [][Next]_vars

\* The runs with the clock.
NextTimed ==
  \/ Acquire
  \/ \E c \in Clients : Close(c)
  \/ \E c \in Clients : ConnectResolves(c)
  \/ \E c \in Clients : ConnectResolvesThenCloses(c)
  \/ \E c \in Clients, msg \in TransportMessages : ConnectRejects(c, msg)
  \/ \E a \in Attempts : TimerFiresWhenDue(a)
  \/ Tick
  \/ \E c \in Clients, e \in ClientErrors : ClientError(c, e)

\* With the clock: a timer fires when it is due.
SpecTimed == Init /\ [][NextTimed]_vars

\* The runs with the clock in which time passes and a timer that is due
\* fires; nothing is assumed of the connects, which may stay pending for
\* ever.
SpecLive ==
  /\ SpecTimed
  /\ WF_vars(Tick)
  /\ \A a \in Attempts : WF_vars(TimerFiresWhenDue(a))

\* The runs of a closure built with any apiToken.
SpecAuth == InitAuth /\ [][Next]_vars

TypeOK ==
  /\ remoteClient \in Clients \cup {Null}
  /\ connectPromise \in Attempts \cup {Null}
  /\ nAttempts \in 0..MaxAttempts
  /\ \A a \in Attempts : pc[a] \in {"idle", "primary", "fallback", "done"}
  /\ \A a \in Attempts : timer[a] \in {"unset", "pending", "fired", "cleared"}
  /\ \A a \in Attempts : timer[a] = "pending" <=> InFlight(a)
  /\ \A c \in Clients : cstate[c] \in {"none", "pending", "ok", "failed"}
  /\ closed \subseteq Clients
  /\ Len(calls) <= MaxCalls
  /\ shutdown \in {"no", "closing", "exited"}
  /\ Len(errorSaid) <= MaxErrors
  /\ localConnected => mainStarted

\* ---------------------------------------------------------------- withLogging
\* The wrapped operation made by withLogging(operation, fn, log) is called
\* with request; its body makes no call of getRemoteClient().
Invoke(operation, request) ==
  /\ Len(inv) < MaxInvocations
  /\ Enter(operation, request, Null)
  /\ UNCHANGED <<supervisor, local, now, failedOn, config, shutdown>>

\* The body of invocation i returns result.
BodyReturns(i, result) ==
  /\ inv[i].body = Running
  /\ TryReturns(i, result)
  /\ UNCHANGED <<supervisor, local, now, failedOn, config, shutdown>>

\* The body of invocation i throws e.
BodyThrows(i, e) ==
  /\ inv[i].body = Running
  /\ inv' = [inv EXCEPT ![i].body = Threw(e), ![i].out = CatchOut(e)]
  /\ logged' = Log(logged, CatchLines(i, e))
  /\ UNCHANGED <<supervisor, local, now, failedOn, config, shutdown>>

\* Date.now() moves on.
ClockTick ==
  /\ now < MaxNow
  /\ now' = now + 1
  /\ UNCHANGED <<supervisor, local, inv, logged, failedOn, config, shutdown>>

NextLog ==
  \/ \E operation \in Operations, request \in Requests :
        Invoke(operation, request)
  \/ \E i \in 1..Len(inv), result \in Results : BodyReturns(i, result)
  \/ \E i \in 1..Len(inv), e \in Thrown : BodyThrows(i, e)
  \/ ClockTick

\* The wrapped operations alone, with bodies that return or throw.
SpecLog == Init /\ [][NextLog]_vars

\* ------------------------------------------------------------- warnIfNoToken
\* The line of the warning; "--" stands for the dash (U+2014) of the source,
\* which a TLA+ string cannot hold.
WarningLine ==
  "WARNING: VIS42_API_TOKEN is not set -- requests will be rejected by the remote server"

\* A test that takes only null for a missing token.
IsNull(token) == token.ty = "null"

\* !apiToken: null and the empty string are falsy.
IsFalsy(token) == token.ty = "null" \/ token.v = ""

\* warnIfNoToken(apiToken, log), called once when the process starts.
WarnIfNoToken ==
  /\ ~warnChecked
  /\ warnChecked' = TRUE
  /\ warnings' = IF IsFalsy(apiToken) THEN Append(warnings, WarningLine)
                 ELSE warnings
  /\ UNCHANGED <<supervisor, local, now, inv, logged, failedOn,
                 apiToken, shutdown>>

\* The two helpers that only log, warnIfNoToken and withLogging, in one
\* process.
NextWarn ==
  \/ WarnIfNoToken
  \/ NextLog

SpecWarn == InitAuth /\ [][NextWarn]_vars

\* ------------------------------------------------- the handlers of index.js
\* The requests main() registers a handler for.
ProxiedOperations ==
  {"tools/list", "tools/call", "resources/list", "resources/read",
   "resources/templates/list", "prompts/list", "prompts/get"}
\* The handlers written with a try and a catch around their body.
TriedOperations == {"tools/list", "tools/call"}
\* A request, with request.params.name, and a tools/list result, with the
\* length of result.tools.
ToolRequest == [name |-> "search"]
ListResult == [tools |-> 2]

\* log("Proxying tools/list..."), log(`Proxying tools/call: ${name}...`), ...
HandlerStartLine(operation, request) ==
  IF operation = "tools/call"
  THEN "Proxying tools/call: " \o request.name \o "..."
  ELSE "Proxying " \o operation \o "..."
\* log(`tools/list returned ${n} tools.`), log(`tools/call ${name} completed.`)
HandlerSuccessLine(operation, request, result) ==
  IF operation = "tools/call"
  THEN "tools/call " \o request.name \o " completed."
  ELSE "tools/list returned " \o ToString(result.tools) \o " tools."
\* log(`tools/list FAILED: ${message}`), log(`tools/call ${name} FAILED: ...`)
HandlerFailedLine(operation, request, message) ==
  IF operation = "tools/call"
  THEN "tools/call " \o request.name \o " FAILED: " \o message
  ELSE "tools/list FAILED: " \o message

\* log(`StreamableHTTP init failed (${err.message}), falling back to SSE...`)
InitFailedLine(e) ==
  "StreamableHTTP init failed (" \o e.message \o "), falling back to SSE..."
\* log(`FAILED to connect to remote: ${err.message}\n${err.stack}`)
ConnectFailedLine(e) ==
  "FAILED to connect to remote: " \o e.message \o "\n" \o StackOf(e)
\* log("Local server closed, shutting down...")
ServerClosedLine == "Local server closed, shutting down..."
\* log(`SERVER ERROR: ${error.message}\n${error.stack || ""}`)
ServerErrorLine(e) == "SERVER ERROR: " \o e.message \o "\n" \o StackOf(e)
\* log(`UNCAUGHT EXCEPTION: ${err.message}\n${err.stack}`)
UncaughtLine(e) == "UNCAUGHT EXCEPTION: " \o e.message \o "\n" \o StackOf(e)
\* log(`UNHANDLED REJECTION: ${reason instanceof Error ? ... : String(reason)}`)
UnhandledLine(reason) ==
  "UNHANDLED REJECTION: " \o
    (IF reason.ty \in {"Error", "TypeError"}
     THEN reason.message \o "\n" \o StackOf(reason)
     ELSE reason.ty)
\* log(`FATAL: ${error.message}\n${error.stack}`)
FatalLine(e) == "FATAL: " \o e.message \o "\n" \o StackOf(e)

\* SERVER_URL.
ServerUrl == "https://vis42.com/api/mcp"
\* process.version: the version of the runtime that evaluates index.js.
NodeVersions == {"v20.20.2", "v22.0.0"}

\* The lines logged while index.js is evaluated; "--" stands for the dash
\* (U+2014) of the source.  The lines that no request logs are logged by 0.
TopLines(token, version) ==
  <<[by |-> 0, line |-> "Starting proxy -- SERVER_URL=" \o ServerUrl],
    [by |-> 0,
     line |-> "API_TOKEN=" \o
                (IF IsFalsy(token) THEN "NOT SET"
                 ELSE "set (" \o ToString(Len(token.v)) \o " chars)")],
    [by |-> 0, line |-> "Node.js " \o version]>>
\* The lines main() logs before `await server.connect(localTransport)`.
SetupLines ==
  <<[by |-> 0, line |-> "Setting up local stdio server..."],
    [by |-> 0, line |-> "Connecting local stdio server..."]>>
\* The line main() logs after it.
ReadyLine ==
  "Proxy ready -- stdio server running. Remote connection will be established on first request."

\* The Error an onerror callback is called with, the Error
\* server.connect() rejects with, the Error that is thrown and not caught.
ServerErrors == {JsError("parse error")}
StartupErrors == {JsError("stdin closed")}
Uncaught == {JsError("boom")}

\* What `new StreamableHTTPClientTransport(url, ...)` does: it returns a
\* transport, or it throws.
Built == [ty |-> "built", message |-> ""]
Constructions == {Built, JsError("invalid url")}
\* The message a failing client.connect() of index.js rejects with.
IndexMessages == { <<"r","e","f","u","s","e","d">> }

\* the body of invocation i has called its operation on a client and awaits it
OperationPending(i) ==
  /\ inv[i].body = Running
  /\ inv[i].call # Null
  /\ Result(inv[i].call).t = "ok"

\* the invocation whose getRemoteClient() call started attempt a
Starter(a) ==
  CHOOSE i \in 1..Len(inv) :
    /\ inv[i].call # Null
    /\ calls[inv[i].call].att = a
    /\ calls[inv[i].call].started

\* The async function stored in connectPromise, up to its await, run by the
\* getRemoteClient() call of invocation i: the headers are made, the
\* StreamableHTTP transport is constructed, or the SSE transport if that
\* constructor throws, then the client; client.connect(transport) is called.
\* There is no timer.
IndexStartAttempt(i, made) ==
  LET a == nAttempts + 1
      c == IF made = Built THEN PrimaryClient(a) ELSE FallbackClient(a)
  IN /\ remoteClient = Null
     /\ connectPromise = Null
     /\ nAttempts < MaxAttempts
     /\ nAttempts' = a
     /\ connectPromise' = a
     /\ pc' = [pc EXCEPT ![a] = IF made = Built THEN "primary" ELSE "fallback"]
     /\ cstate' = [cstate EXCEPT ![c] = "pending"]
     /\ headers' = [headers EXCEPT ![c] = Headers(apiToken)]
     /\ calls' = Append(calls, CallRecord(a, Null, TRUE))
     /\ UNCHANGED <<remoteClient, timer, age, due, fbAt, said>>

\* The lines that function logs up to its await.
StartAttemptLines(i, made) ==
  <<[by |-> i, line |-> ConnectingLine]>> \o
  (IF made = Built
   THEN <<[by |-> i, line |-> UsingLine("primary")]>>
   ELSE <<[by |-> i, line |-> InitFailedLine(made)],
          [by |-> i, line |-> UsingLine("fallback")]>>)

\* A main() that connects to the remote server before it serves.
MainStartsEager ==
  /\ ~mainStarted
  /\ mainStarted' = TRUE
  /\ \E version \in NodeVersions :
       logged' = Log(logged, TopLines(apiToken, version) \o SetupLines
                                \o StartAttemptLines(0, Built))
  /\ nAttempts' = nAttempts + 1
  /\ connectPromise' = nAttempts + 1
  /\ pc' = [pc EXCEPT ![nAttempts + 1] = "primary"]
  /\ cstate' = [cstate EXCEPT ![PrimaryClient(nAttempts + 1)] = "pending"]
  /\ headers' = [headers EXCEPT ![PrimaryClient(nAttempts + 1)] =
                                   Headers(apiToken)]
  /\ UNCHANGED <<remoteClient, timer, closed, outcome, calls, lastClosed,
                 age, due, fbAt, said, closeSaid, inv, failedOn,
                 localConnected, errorSaid, now, config, shutdown>>

\* index.js is evaluated and main() runs up to its await: the three lines of
\* the module are logged, the Server is made, onerror, the request handlers
\* and onclose are installed and server.connect(localTransport) is called.
\* getRemoteClient is not called.
MainStarts ==
  /\ ~mainStarted
  /\ mainStarted' = TRUE
  /\ \E version \in NodeVersions :
       logged' = Log(logged, TopLines(apiToken, version) \o SetupLines)
  /\ UNCHANGED <<supervisor, inv, failedOn, localConnected, errorSaid, now,
                 config, shutdown>>

\* server.connect(localTransport) resolves and main() runs to its end.
MainResumes ==
  /\ mainStarted
  /\ ~localConnected
  /\ shutdown # "exited"
  /\ localConnected' = TRUE
  /\ logged' = Log(logged, <<[by |-> 0, line |-> ReadyLine]>>)
  /\ UNCHANGED <<supervisor, inv, failedOn, mainStarted, errorSaid, now,
                 config, shutdown>>

\* server.connect(localTransport) rejects with e: main() throws e and
\* main().catch logs and calls process.exit(1).
MainCatch(e) ==
  /\ mainStarted
  /\ ~localConnected
  /\ shutdown # "exited"
  /\ logged' = Log(logged, <<[by |-> 0, line |-> FatalLine(e)]>>)
  /\ shutdown' = "exited"
  /\ UNCHANGED <<supervisor, inv, failedOn, local, now, config>>

\* A request for operation comes in, once main() has registered the
\* handlers: its handler logs the start line and calls getRemoteClient(),
\* which returns the cached client, or the stored promise, or starts an
\* attempt.  With a cached client the handler calls the operation on it in
\* the same task.
HandleRequest(operation) ==
  /\ mainStarted
  /\ shutdown = "no"
  /\ Len(inv) < MaxInvocations
  /\ Len(calls) < MaxCalls
  /\ inv' = Append(inv, [operation |-> operation, request |-> ToolRequest,
                         start |-> now, received |-> ToolRequest,
                         call |-> Len(calls) + 1,
                         body |-> Running, out |-> Running])
  /\ \/ /\ (ReturnCached \/ ReturnInFlight)
        /\ logged' = Log(logged,
              <<[by |-> Len(inv) + 1,
                 line |-> HandlerStartLine(operation, ToolRequest)]>>)
     \/ \E made \in Constructions :
          /\ IndexStartAttempt(Len(inv) + 1, made)
          /\ logged' = Log(logged,
                <<[by |-> Len(inv) + 1,
                   line |-> HandlerStartLine(operation, ToolRequest)]>>
                \o StartAttemptLines(Len(inv) + 1, made))
  /\ UNCHANGED <<closed, outcome, lastClosed, closeSaid, failedOn, outside>>

\* The remote call of handler i returns: the tools handlers log a line and
\* return the result, the other handlers return it.
HandlerReturns(i) ==
  /\ shutdown # "exited"
  /\ OperationPending(i)
  /\ inv' = [inv EXCEPT ![i].body = Returned(ListResult),
                        ![i].out = Returned(ListResult)]
  /\ logged' = IF inv[i].operation \in TriedOperations
               THEN Log(logged,
                      <<[by |-> i,
                         line |-> HandlerSuccessLine(inv[i].operation,
                                    inv[i].request, ListResult)]>>)
               ELSE logged
  /\ UNCHANGED <<supervisor, failedOn, outside>>

\* What handler i throws when its body throws e: the catch block of the
\* tools handlers reads error.message for its line and throws e again, and
\* reading the message of undefined throws a TypeError out of the catch
\* block; the other handlers have no catch block and throw e.
HandlerCatchOut(i, e) ==
  IF inv[i].operation \in TriedOperations THEN CatchOut(e) ELSE Threw(e)

\* What the catch block of handler i logs when its body throws e: the tools
\* handlers log a line unless reading the message throws, the other handlers
\* have no catch block.
HandlerCatchLines(i, e) ==
  IF inv[i].operation \in TriedOperations /\ e.ty # "undefined"
  THEN <<[by |-> i,
          line |-> HandlerFailedLine(inv[i].operation, inv[i].request,
                                     e.message)]>>
  ELSE <<>>

RECURSIVE HandlerCatchLinesOfAll(_, _)
HandlerCatchLinesOfAll(is, e) ==
  IF is = <<>> THEN <<>>
  ELSE HandlerCatchLines(Head(is), e) \o HandlerCatchLinesOfAll(Tail(is), e)

\* The remote call of handler i throws e, an Error or undefined: the catch
\* block of the tools handlers logs and throws e again, the other handlers
\* reject with e.
HandlerThrows(i, e) ==
  /\ shutdown # "exited"
  /\ OperationPending(i)
  /\ inv' = [inv EXCEPT ![i].body = Threw(e),
                        ![i].out = HandlerCatchOut(i, e)]
  /\ logged' = Log(logged, HandlerCatchLines(i, e))
  /\ UNCHANGED <<supervisor, failedOn, outside>>

\* `await client.connect(transport)` of client c resolves, s being the two
\* variables as the event left them: the line is logged, the client is
\* cached and the handlers awaiting the promise call their operation on it.
IndexResolved(c, s) ==
  /\ cstate[c] = "pending"
  /\ shutdown # "exited"
  /\ cstate' = [cstate EXCEPT ![c] = "ok"]
  /\ outcome' = [outcome EXCEPT ![AttemptOf(c)] = Ok(c)]
  /\ pc' = [pc EXCEPT ![AttemptOf(c)] = "done"]
  /\ SetSup(OnResolved(s, c))
  /\ logged' = Log(logged, <<[by |-> Starter(AttemptOf(c)),
                               line |-> ConnectedLine]>>)
  /\ UNCHANGED <<nAttempts, timer, calls, lastClosed, age, due, fbAt,
                 headers, said, inv, failedOn, outside>>

\* client.connect(transport) of client c resolves.
IndexConnectResolves(c) ==
  /\ IndexResolved(c, Sup)
  /\ UNCHANGED <<closed, closeSaid>>

\* client.connect(transport) of client c resolves and the client closes at
\* once: its onclose runs, and logs, before the continuation of the async
\* function.
IndexConnectResolvesThenCloses(c) ==
  /\ c \notin closed
  /\ closed' = closed \cup {c}
  /\ closeSaid' = [closeSaid EXCEPT ![c] = Append(@, ClosedLine)]
  /\ IndexResolved(c, OnClose(Sup, c))

\* client.connect(transport) of client c rejects with an Error of message
\* msg: the catch block of the async function logs, clears connectPromise and
\* throws; the handlers awaiting the promise throw the Error in the order of
\* their calls.
IndexConnectRejects(c, msg) ==
  LET a == AttemptOf(c)
      e == JsError(Text(msg))
  IN /\ cstate[c] = "pending"
     /\ shutdown # "exited"
     /\ cstate' = [cstate EXCEPT ![c] = "failed"]
     /\ outcome' = [outcome EXCEPT ![a] = TransportError(msg)]
     /\ pc' = [pc EXCEPT ![a] = "done"]
     /\ SetSup(OnRejected(Sup))
     /\ inv' = [i \in 1..Len(inv) |->
                  IF i \in Awaiting(a)
                  THEN [inv[i] EXCEPT !.body = Threw(e),
                                      !.out = HandlerCatchOut(i, e)]
                  ELSE inv[i]]
     /\ logged' = Log(logged,
          <<[by |-> Starter(a), line |-> ConnectFailedLine(e)]>>
          \o HandlerCatchLinesOfAll(
                SelectSeq([i \in 1..Len(inv) |-> i],
                          LAMBDA i : i \in Awaiting(a)), e))
     /\ UNCHANGED <<nAttempts, timer, closed, calls, lastClosed, age, due,
                    fbAt, headers, said, closeSaid, failedOn, outside>>

\* client.onclose of index.js, for any client made, at most once per client:
\* it logs and clears remoteClient and connectPromise.
IndexClose(c) ==
  /\ cstate[c] # "none"
  /\ c \notin closed
  /\ shutdown # "exited"
  /\ closed' = closed \cup {c}
  /\ SetSup(OnClose(Sup, c))
  /\ closeSaid' = [closeSaid EXCEPT ![c] = Append(@, ClosedLine)]
  /\ UNCHANGED <<nAttempts, pc, timer, cstate, outcome, calls, lastClosed,
                 age, due, fbAt, headers, said, wrapped, failedOn, outside>>

\* server.onclose: it logs, calls remoteClient.close() and awaits it if a
\* client is cached, and ends the process.
ServerCloses ==
  /\ mainStarted
  /\ shutdown = "no"
  /\ logged' = Log(logged, <<[by |-> 0, line |-> ServerClosedLine]>>)
  /\ shutdown' = IF remoteClient # Null THEN "closing" ELSE "exited"
  /\ UNCHANGED <<supervisor, inv, failedOn, local, now, config>>

\* remoteClient.close() has resolved or rejected: process.exit(0).
ProcessExits ==
  /\ shutdown = "closing"
  /\ shutdown' = "exited"
  /\ UNCHANGED <<supervisor, wrapped, failedOn, local, now, config>>

\* client.onerror of a client that has been made is called with e: it logs.
IndexClientError(c, e) ==
  /\ cstate[c] # "none"
  /\ shutdown # "exited"
  /\ Len(errorSaid) < MaxErrors
  /\ errorSaid' = Append(errorSaid, ClientErrorLine(e))
  /\ UNCHANGED <<supervisor, wrapped, failedOn, localConnected, mainStarted,
                 now, config, shutdown>>

\* server.onerror is called with e: it logs.
ServerError(e) ==
  /\ mainStarted
  /\ shutdown # "exited"
  /\ Len(errorSaid) < MaxErrors
  /\ errorSaid' = Append(errorSaid, ServerErrorLine(e))
  /\ UNCHANGED <<supervisor, wrapped, failedOn, localConnected, mainStarted,
                 now, config, shutdown>>

\* process.on("uncaughtException"): an Error is thrown that nothing catches;
\* the handler logs and calls process.exit(1).
UncaughtException(e) ==
  /\ mainStarted
  /\ shutdown # "exited"
  /\ logged' = Log(logged, <<[by |-> 0, line |-> UncaughtLine(e)]>>)
  /\ shutdown' = "exited"
  /\ UNCHANGED <<supervisor, inv, failedOn, local, now, config>>

\* process.on("unhandledRejection"): a promise rejects with reason and has
\* no handler; the handler logs and calls process.exit(1).
UnhandledRejection(reason) ==
  /\ mainStarted
  /\ shutdown # "exited"
  /\ logged' = Log(logged, <<[by |-> 0, line |-> UnhandledLine(reason)]>>)
  /\ shutdown' = "exited"
  /\ UNCHANGED <<supervisor, inv, failedOn, local, now, config>>

NextBoundary ==
  \/ MainStarts
  \/ MainResumes
  \/ \E e \in StartupErrors : MainCatch(e)
  \/ \E operation \in ProxiedOperations : HandleRequest(operation)
  \/ \E c \in Clients : IndexConnectResolves(c)
  \/ \E c \in Clients : IndexConnectResolvesThenCloses(c)
  \/ \E c \in Clients, msg \in IndexMessages : IndexConnectRejects(c, msg)
  \/ \E c \in Clients : IndexClose(c)
  \/ \E i \in 1..Len(inv) : HandlerReturns(i)
  \/ \E i \in 1..Len(inv), e \in Thrown : HandlerThrows(i, e)
  \/ ServerCloses
  \/ ProcessExits
  \/ \E c \in Clients, e \in ClientErrors : IndexClientError(c, e)
  \/ \E e \in ServerErrors : ServerError(e)
  \/ \E e \in Uncaught : UncaughtException(e)
  \/ \E reason \in Thrown : UnhandledRejection(reason)

\* src/server/index.js: main(), its request handlers, its own
\* getRemoteClient() and the callbacks it installs.
SpecBoundary == Init /\ [][NextBoundary]_vars

\* ------------------------------------------------------- proxied operations
\* A catch block that drops the connection when the operation fails.
OnHandlerErrorInvalidates(s) == [remoteClient |-> Null, connectPromise |-> Null]

\* catch (error) { log(...); throw error; }: the closure's variables are not
\* in the scope of the wrapper, it leaves them as they are.
OnHandlerError(s) == s

\* A request comes in for an operation whose handler is wrapped by
\* withLogging and whose body is
\*   const client = await getRemoteClient(); return await client.<op>(...);
\* the wrapper logs the start line and calls the body, which calls
\* getRemoteClient().  With a cached client the body calls the operation on
\* it in the same task.
ProxyRequest(operation, request) ==
  /\ Len(inv) < MaxInvocations
  /\ GetRemoteClient
  /\ Enter(operation, request, Len(calls) + 1)
  /\ UNCHANGED outside

\* The operation invocation i called on its client returns result.
OperationReturns(i, result) ==
  /\ OperationPending(i)
  /\ TryReturns(i, result)
  /\ failedOn' = Null
  /\ UNCHANGED <<supervisor, outside>>

\* The operation invocation i called on its client fails with e: the body
\* throws e to the catch block of the wrapper.
OperationFails(i, e) ==
  /\ OperationPending(i)
  /\ inv' = [inv EXCEPT ![i].body = Threw(e), ![i].out = CatchOut(e)]
  /\ logged' = Log(logged, CatchLines(i, e))
  /\ failedOn' = Result(inv[i].call).client
  /\ SetSup(OnHandlerError(Sup))
  /\ UNCHANGED <<nAttempts, pc, timer, cstate, closed, outcome, calls,
                 lastClosed, age, due, fbAt, headers, said, closeSaid,
                 outside>>

\* The operations and requests of the proxied handlers.
ProxyOperations == {"tools/list"}
ProxyRequests == {"{}"}

NextProxy ==
  \/ \E operation \in ProxyOperations, request \in ProxyRequests :
        ProxyRequest(operation, request)
  \/ \E c \in Clients : Close(c)
  \/ \E c \in Clients : ConnectResolves(c)
  \/ \E c \in Clients : ConnectResolvesThenCloses(c)
  \/ \E c \in Clients, msg \in TransportMessages : ConnectRejects(c, msg)
  \/ \E a \in Attempts : TimerFires(a)
  \/ \E c \in Clients, e \in ClientErrors : ClientError(c, e)
  \/ \E i \in 1..Len(inv), result \in Results : OperationReturns(i, result)
  \/ \E i \in 1..Len(inv) : OperationFails(i, JsError("boom"))
  \/ ClockTick

\* The closure with wrapped handlers whose operations can fail.
SpecProxy == Init /\ [][NextProxy]_vars

\* =================================================================== claims
LastCall == calls[Len(calls)]
\* call k was made while the cache was empty
NoHandleCachedAt(k) == calls[k].val = Null
\* call k0 had not settled when the later call k was made
PendingAt(k0, k) ==
  k0 < k /\ calls[k0].val = Null /\ calls[k0].att \in calls[k].inFlightAt

\* C1: any two getRemoteClient() calls, the later one made while no handle is
\* cached and before the earlier one has settled, wait for one and the same
\* connect() run (no second run is started) and settle with the same handle.
C1_SingleConnectUnderConcurrency ==
  \A k \in 1..Len(calls) : \A k0 \in 1..Len(calls) :
    (NoHandleCachedAt(k) /\ PendingAt(k0, k)) =>
       /\ calls[k].att = calls[k0].att
       /\ ~calls[k].started
       /\ Result(k) = Result(k0)

\* C2: remoteClient and connectPromise are never both present: the state is
\* idle (neither), connecting (only connectPromise) or connected (only
\* remoteClient), so a successful attempt that stores the handle in
\* remoteClient also clears connectPromise.
C2_NeverBothPresent == ~(remoteClient # Null /\ connectPromise # Null)

\* C3: the cached handle is one whose connect resolved and whose close
\* notification has not fired, and no call made after the close notification
\* of a handle settles with that handle.
C3_CachedHandleIsLive ==
  /\ remoteClient # Null =>
       cstate[remoteClient] = "ok" /\ remoteClient \notin closed
  /\ \A k \in 1..Len(calls) :
       Result(k).t = "ok" => Result(k).client \notin calls[k].closedAt

\* C4: an attempt whose StreamableHTTP connect rejected before the timer
\* fired (a transport error, not the deadline) has made the SSE client and
\* called its connect.
C4_FallbackAfterPrimaryFailure ==
  \A a \in Attempts :
    (cstate[PrimaryClient(a)] = "failed" /\ timer[a] # "fired")
       => cstate[FallbackClient(a)] # "none"

\* C5: when the timer fires while the StreamableHTTP connect is pending, the
\* attempt rejects with the timeout error in that step, the SSE client is not
\* made, and it is not made later either.
C5_TimeoutPrecedesFallback ==
  [][ \A a \in Attempts :
        /\ (pc[a] = "primary" /\ timer[a] = "pending" /\ timer'[a] = "fired")
             => /\ outcome'[a] = TimeoutError
                /\ cstate'[FallbackClient(a)] = "none"
        /\ (pc[a] = "done" /\ cstate[FallbackClient(a)] = "none")
             => cstate'[FallbackClient(a)] = "none"
    ]_vars

\* a call waits for an attempt that timed out on the StreamableHTTP try: the
\* call is rejected with the timeout error and no SSE client exists
C5_Witness ==
  \E k \in 1..Len(calls) :
    /\ calls[k].att # Null
    /\ timer[calls[k].att] = "fired"
    /\ cstate[PrimaryClient(calls[k].att)] = "pending"
    /\ cstate[FallbackClient(calls[k].att)] = "none"
    /\ Result(k) = TimeoutError

\* C6: the first call made after the close notification of a cached handle h
\* that a call had settled with starts a new connect() run and does not
\* settle with h.
C6_ResetOnClose ==
  \A k \in 1..Len(calls) :
    calls[k].afterCloseOf # Null =>
       /\ calls[k].started
       /\ Result(k) # Ok(calls[k].afterCloseOf)

\* C7: the step in which an attempt fails leaves remoteClient and
\* connectPromise both absent, so that the next call starts a new attempt.
C7_FailureLeavesIdle ==
  [][ (\E a \in Attempts : outcome[a].t = "pending" /\ outcome'[a].t = "err")
        => (remoteClient' = Null /\ connectPromise' = Null) ]_vars

\* C8: a call made while an attempt is in flight waits for that attempt, and
\* so settles with its outcome.
C8_CallersShareOutcome ==
  \A k \in 1..Len(calls) : \A a \in calls[k].inFlightAt :
    calls[k].att = a /\ Result(k) = outcome[a]

\* C9: a call made while a handle is cached returns that handle, and the step
\* starts no attempt, makes no client, calls no connect and sets no timer.
C9_CachedReturnNoIO ==
  [][ (remoteClient # Null /\ Len(calls') = Len(calls) + 1)
        => /\ calls'[Len(calls')].val = remoteClient
           /\ ~calls'[Len(calls')].started
           /\ nAttempts' = nAttempts
           /\ cstate' = cstate
           /\ timer' = timer
           /\ pc' = pc
           /\ remoteClient' = remoteClient
    ]_vars

\* one attempt succeeded, its caller got the handle, and a later call got the
\* same handle from the cache: connect was called once in total
C9_Witness ==
  /\ Len(calls) >= 2
  /\ calls[1].started /\ Result(1).t = "ok"
  /\ LastCall.val = Result(1).client
  /\ nAttempts = 1
  /\ Cardinality({c \in Clients : cstate[c] # "none"}) = 1

\* C10: the close notification of a client that is not the cached handle
\* leaves remoteClient and connectPromise unchanged.
C10_OnlyCachedHandleCloseClears ==
  [][ \A c \in Clients :
        (c \in closed' /\ c \notin closed /\ c # remoteClient)
           => (remoteClient' = remoteClient /\ connectPromise' = connectPromise)
    ]_vars

\* C11: the step in which the cached handle's close notification fires
\* leaves remoteClient absent, whatever the callers are doing, and starts
\* nothing: no attempt, no client, no connect call, no timer.
C11_CloseClearsAndStartsNothing ==
  [][ \A c \in Clients :
        (c \in closed' /\ c \notin closed /\ c = remoteClient)
           => /\ remoteClient' = Null
              /\ nAttempts' = nAttempts
              /\ pc' = pc
              /\ cstate' = cstate
              /\ timer' = timer
    ]_vars

\* the cached handle has closed with no call waiting and no attempt running:
\* the cache is empty and nothing is connecting
C11_Witness ==
  /\ lastClosed # Null
  /\ lastClosed \in closed
  /\ remoteClient = Null
  /\ \A a \in Attempts : ~InFlight(a)
  /\ \A k \in 1..Len(calls) : Result(k).t # "pending"

\* C12: a connect() run has one deadline, connectTimeoutMs after its start,
\* whenever its StreamableHTTP try failed: no run is in flight past that
\* deadline, and a run ended by its timer ended at that deadline with the
\* timeout Error.
C12_SingleSharedDeadline ==
  \A a \in Attempts :
    /\ InFlight(a) => age[a] <= connectTimeoutMs
    /\ timer[a] = "fired" => /\ age[a] = connectTimeoutMs
                             /\ outcome[a] = TimeoutError

\* the StreamableHTTP try failed at a time t with 0 < t < connectTimeoutMs,
\* the SSE connect was still pending at the deadline, and the run ended there
\* with the timeout Error
C12_Witness ==
  \E a \in Attempts :
    /\ timer[a] = "fired"
    /\ cstate[PrimaryClient(a)] = "failed"
    /\ cstate[FallbackClient(a)] = "pending"
    /\ 0 < fbAt[a] /\ fbAt[a] < connectTimeoutMs
    /\ age[a] = connectTimeoutMs
    /\ outcome[a] = TimeoutError

\* C13: once a connect() run has returned or thrown, on whichever path, its
\* timer is not pending any more; and a timer that has fired or has been
\* cleared stays so: it does not fire again.
C13_TimerNeverLeftPending ==
  [][ \A a \in Attempts :
        /\ pc'[a] = "done" => timer'[a] \in {"fired", "cleared"}
        /\ timer[a] \in {"fired", "cleared"} => timer'[a] = timer[a]
    ]_vars

\* one run ended with the Error of its SSE connect and its timer cleared,
\* another run was ended by its timer
C13_Witness ==
  \E a, b \in Attempts :
    /\ pc[a] = "done" /\ pc[b] = "done"
    /\ cstate[FallbackClient(a)] = "failed"
    /\ outcome[a].t = "err" /\ outcome[a].kind = "transport"
    /\ timer[a] = "cleared"
    /\ timer[b] = "fired"

\* C14: the step in which a connect() run ends during its SSE try without a
\* client ends it with the Error the SSE connect rejected with, or with the
\* timeout Error if its timer fired; the promise the callers hold rejects
\* with that Error, and the step leaves remoteClient and connectPromise both
\* absent.
C14_FallbackFailureClearsState ==
  [][ \A a \in Attempts :
        (pc[a] = "fallback" /\ pc'[a] = "done" /\ outcome'[a].t = "err")
          => /\ \/ outcome'[a] = TimeoutError /\ timer'[a] = "fired"
                \/ /\ outcome'[a].kind = "transport"
                   /\ cstate'[FallbackClient(a)] = "failed"
                   /\ timer'[a] = "cleared"
             /\ remoteClient' = Null
             /\ connectPromise' = Null
    ]_vars

\* C15: nothing is connected before the first call of getRemoteClient():
\* while no request has made a call, with the local server connected or
\* not, no connect() run has started, no client exists, no timer is set; and
\* every connect() run was started by a call.
C15_LazyConnection ==
  /\ Len(calls) = 0 =>
       /\ nAttempts = 0
       /\ connectPromise = Null /\ remoteClient = Null
       /\ \A a \in Attempts : pc[a] = "idle" /\ timer[a] = "unset"
       /\ \A c \in Clients : cstate[c] = "none"
  /\ nAttempts = Cardinality({k \in 1..Len(calls) : calls[k].started})

\* main() has connected the local server and no request has come in yet
C15_Witness ==
  /\ localConnected
  /\ Len(calls) = 0
  /\ nAttempts = 0

\* the lines invocation i has logged, in order
LinesOf(i) == logged[i]
Durations == 0..MaxNow

\* C16: every invocation of a wrapped operation has logged its start line
\* first and nothing else while its body runs; once the invocation has
\* returned or thrown it has logged exactly one more line, the completed line
\* if it returned and the FAILED line with the message if it threw; however
\* the invocations overlap.
C16_OneStartOneTerminalLine ==
  \A i \in 1..Len(inv) :
    LET ls == LinesOf(i)
        op == inv[i].operation
    IN /\ Len(ls) >= 1
       /\ ls[1].line = StartLine(op)
       /\ inv[i].out = Running => Len(ls) = 1
       /\ inv[i].out # Running =>
            /\ Len(ls) = 2
            /\ inv[i].out.t = "returned" =>
                 \E n \in Durations : ls[2].line = CompletedLine(op, n)
            /\ inv[i].out.t = "threw" =>
                 \E n \in Durations :
                   ls[2].line = FailedLine(op, n, inv[i].out.v.message)

\* C17: when the body of a wrapped operation throws e, the wrapped operation
\* throws that same e.
C17_RethrowsSameError ==
  \A i \in 1..Len(inv) :
    inv[i].body.t = "threw" => inv[i].out = inv[i].body

\* C20: the body of a wrapped operation is called with the request the
\* wrapped operation was called with, and when the body returns a result the
\* wrapped operation returns that result.
C20_ResultAndRequestPassThrough ==
  \A i \in 1..Len(inv) :
    /\ inv[i].received = inv[i].request
    /\ inv[i].body.t = "returned" => inv[i].out = inv[i].body

\* a wrapped operation called with a request with parameters has returned
\* the result of its body, while another invocation was still running
C20_Witness ==
  \E i, j \in 1..Len(inv) :
    /\ inv[i].request = "{params:{id:42}}"
    /\ inv[i].received = "{params:{id:42}}"
    /\ inv[i].body \in {Returned(r) : r \in Results}
    /\ inv[i].out = inv[i].body
    /\ inv[j].out = Running

\* C18: the step in which an operation fails on a client leaves remoteClient
\* and connectPromise as they were and starts nothing; and a call of
\* getRemoteClient() made right after an operation failed on the cached
\* client returns that client, without a new connect() run.
C18_HandlerErrorKeepsConnection ==
  [][ /\ failedOn' # Null =>
           /\ remoteClient' = remoteClient
           /\ connectPromise' = connectPromise
           /\ nAttempts' = nAttempts /\ cstate' = cstate /\ closed' = closed
      /\ (failedOn # Null /\ failedOn = remoteClient
            /\ Len(calls') = Len(calls) + 1) =>
           /\ calls'[Len(calls')].val = failedOn
           /\ ~calls'[Len(calls')].started
           /\ nAttempts' = nAttempts /\ cstate' = cstate
    ]_vars

\* an operation has just failed on the cached client, which is still cached
C18_Witness ==
  /\ failedOn # Null
  /\ failedOn = remoteClient
  /\ Len(calls) < MaxCalls

\* the Authorization headers among the headers h
Authorization(h) == {x \in h : x.name = "Authorization"}

\* C19: with a non-empty apiToken every transport made, StreamableHTTP or
\* SSE, was given exactly the one header Authorization: Bearer <apiToken>;
\* with a null or empty apiToken no transport made was given an Authorization
\* header.
C19_AuthorizationHeader ==
  \A c \in Clients :
    cstate[c] # "none" =>
      IF apiToken.ty = "string" /\ apiToken.v # ""
      THEN Authorization(headers[c]) =
             {[name |-> "Authorization", value |-> "Bearer " \o apiToken.v]}
      ELSE Authorization(headers[c]) = {}

\* a closure built with a credential has made both transports of a run, each
\* with the header
C19_Witness ==
  \E a \in Attempts :
    /\ cstate[PrimaryClient(a)] # "none"
    /\ cstate[FallbackClient(a)] # "none"
    /\ apiToken = JsString("my-secret")
    /\ headers[PrimaryClient(a)] =
         {[name |-> "Authorization", value |-> "Bearer my-secret"]}
    /\ headers[FallbackClient(a)] =
         {[name |-> "Authorization", value |-> "Bearer my-secret"]}

\* C21: once warnIfNoToken has been called, it has logged the one WARNING
\* line if the token is null or the empty string and nothing if the token is
\* a non-empty string; before the call nothing is logged.
C21_WarnIfNoToken ==
  warnings = IF warnChecked /\ (apiToken = JsNull \/ apiToken = JsString(""))
             THEN <<WarningLine>>
             ELSE <<>>

\* warnIfNoToken has been called with the empty string and has logged the
\* line
C21_Witness ==
  /\ warnChecked
  /\ apiToken = JsString("")
  /\ warnings = <<WarningLine>>

\* C22: whatever the message of a transport Error says, a connect() run does
\* not end with the Error of its StreamableHTTP connect: a run that ended
\* with a transport Error had made its SSE try, and the Error is the one the
\* SSE connect rejected with.
C22_FallbackWhateverTheMessage ==
  \A a \in Attempts :
    (outcome[a].t = "err" /\ outcome[a].kind = "transport")
       => cstate[FallbackClient(a)] = "failed"

\* C23: a client.connect() is called only in two kinds of step: the
\* StreamableHTTP connect of a run in the step of the getRemoteClient() call
\* that starts the run, and the SSE connect of a run in the step in which its
\* StreamableHTTP connect rejected while the timer was still pending.  Every
\* run that starts calls its StreamableHTTP connect, and a connect that has
\* been called is not called again.
C23_NoInternalRetry ==
  [][ /\ \A c \in Clients :
           /\ (cstate[c] = "none" /\ cstate'[c] # "none") =>
                /\ cstate'[c] = "pending"
                /\ IF c = PrimaryClient(AttemptOf(c))
                   THEN /\ Len(calls') = Len(calls) + 1
                        /\ calls'[Len(calls')].started
                        /\ calls'[Len(calls')].att = AttemptOf(c)
                   ELSE /\ pc[AttemptOf(c)] = "primary"
                        /\ cstate[PrimaryClient(AttemptOf(c))] = "pending"
                        /\ cstate'[PrimaryClient(AttemptOf(c))] = "failed"
                        /\ timer'[AttemptOf(c)] = "pending"
           /\ cstate[c] # "none" => cstate'[c] # "none"
           /\ cstate[c] \in {"ok", "failed"} => cstate'[c] = cstate[c]
      /\ nAttempts' # nAttempts =>
           /\ nAttempts' = nAttempts + 1
           /\ cstate[PrimaryClient(nAttempts')] = "none"
           /\ cstate'[PrimaryClient(nAttempts')] = "pending"
    ]_vars

\* a run has failed after both its connects rejected, nothing is connecting,
\* and no call has been made since
C23_Witness ==
  \E a \in Attempts :
    /\ pc[a] = "done" /\ outcome[a].t = "err"
    /\ cstate[PrimaryClient(a)] = "failed"
    /\ cstate[FallbackClient(a)] = "failed"
    /\ nAttempts = a
    /\ \A b \in Attempts : ~InFlight(b)
    /\ LastCall.att = a

\* the lines a connect() run logs while it goes on or succeeds
ProgressLines ==
  {ConnectingLine, UsingLine("primary"), UsingLine("fallback"), ConnectedLine}
    \cup {FallbackLine(TransportError(msg)) : msg \in TransportMessages}

\* C24: every connect() run that has begun has logged the line of its
\* beginning first; a run that has returned a client has logged the transport
\* it chose and then, last, that it is connected; a run that has thrown,
\* its timer fired or its connects rejected, has logged a line about the
\* failure last; every onclose that has run has logged one line.
C24_EveryTransitionLogged ==
  /\ \A a \in Attempts :
       LET n == Len(said[a]) IN
       /\ pc[a] # "idle" => n >= 1 /\ said[a][1] = ConnectingLine
       /\ (pc[a] = "done" /\ outcome[a].t = "ok") =>
            /\ n >= 3
            /\ said[a][n] = ConnectedLine
            /\ said[a][n - 1] \in {UsingLine("primary"), UsingLine("fallback")}
       /\ (pc[a] = "done" /\ outcome[a].t = "err") =>
            /\ n >= 2
            /\ said[a][n] \notin ProgressLines
  /\ \A c \in Clients :
       closeSaid[c] = IF c \in closed THEN <<ClosedLine>> ELSE <<>>

\* the lines handler i has logged itself, in order: what its invocation
\* logged, less the lines of the getRemoteClient() call it made
OwnLinesOf(i) ==
  SelectSeq(LinesOf(i),
    LAMBDA l : l.line \notin {ConnectingLine, UsingLine("primary"),
                              UsingLine("fallback"), ConnectedLine}
                             \cup {InitFailedLine(m) : m \in Constructions}
                             \cup {ConnectFailedLine(JsError(Text(msg))) :
                                     msg \in IndexMessages})

\* C25: every request handled by main() has logged its start line first and
\* no other line of its own while it is handled, and once its handler has
\* returned or thrown it has logged exactly one more line of its own.
C25_BoundaryLogsStartAndTerminal ==
  \A i \in 1..Len(inv) :
    LET ls == OwnLinesOf(i) IN
    /\ Len(ls) >= 1
    /\ ls[1].line = HandlerStartLine(inv[i].operation, inv[i].request)
    /\ inv[i].out = Running => Len(ls) = 1
    /\ inv[i].out # Running => Len(ls) = 2

\* C26: in every state at most one connect() run is in flight.
C26_AtMostOneUnresolvedAttempt ==
  Cardinality({a \in Attempts : InFlight(a)}) <= 1

\* C27: the step in which a connect settles whose connect() run has already
\* ended (its timer fired while the connect was pending) changes neither
\* remoteClient nor connectPromise nor the outcome of any run, and resumes
\* no run.
C27_AbandonedConnectHasNoEffect ==
  [][ \A c \in Clients :
        (pc[AttemptOf(c)] = "done" /\ cstate[c] = "pending"
           /\ cstate'[c] \in {"ok", "failed"})
          => /\ remoteClient' = remoteClient
             /\ connectPromise' = connectPromise
             /\ outcome' = outcome
             /\ pc' = pc
             /\ timer' = timer
             /\ nAttempts' = nAttempts
    ]_vars

\* the StreamableHTTP connect of a run resolved after the timer had ended
\* the run: the run keeps the timeout Error and its client is not cached,
\* while a newer run is in flight and stays stored
C27_Witness ==
  \E a, b \in Attempts :
    /\ timer[a] = "fired" /\ pc[a] = "done"
    /\ cstate[PrimaryClient(a)] = "ok"
    /\ outcome[a] = TimeoutError
    /\ remoteClient # PrimaryClient(a)
    /\ a < b /\ InFlight(b) /\ connectPromise = b

\* C28: every connect() run in flight ends, with a client or with an Error,
\* and with it every getRemoteClient() call that started it or joined it
\* settles.
C28_EveryCallSettles ==
  \A a \in Attempts :
    InFlight(a) ~> (pc[a] = "done" /\ outcome[a].t # "pending")

\* a call joined a run in flight whose connect never settled, and the call
\* has settled with the timeout Error
C28_Witness ==
  \E k \in 1..Len(calls) :
    /\ calls[k].val = Null /\ ~calls[k].started
    /\ cstate[PrimaryClient(calls[k].att)] = "pending"
    /\ Result(k) = TimeoutError

====
